---- MODULE Spec2Model ----
(***************************************************************************)
(* Net-Tolerance: robustness of random (Erdos-Renyi) and scale-free        *)
(* (Barabasi-Albert) networks under random failure and targeted attack.    *)
(*                                                                         *)
(* A graph is a record [nodes, edges]: nodes is the sequence of node ids   *)
(* in the iteration order of the networkx node dictionary (insertion       *)
(* order), edges is a set of two-element sets of node ids.                 *)
(* A fraction is an exact rational [num, den] with den > 0; floating-point *)
(* rounding of fraction*n is outside the model.                            *)
(***************************************************************************)
EXTENDS Integers, Sequences, FiniteSets, TLC

(* ---------------- bounds of the model ---------------- *)

\* largest node count handed to get_network
MaxN == 4

\* node counts tried, including the invalid ones
NValues == (0 - 1)..MaxN

\* average degrees tried: m = 0, 1, 2 for the scale-free model and
\* p = 0, 0 < p < 1, p >= 1 for the random model
AvgKValues == {0, 2, 4}

\* fractions tried by direct calls of the removal functions
Fractions ==
  { [num |-> 0 - 1, den |-> 2], [num |-> 0, den |-> 1], [num |-> 1, den |-> 4],
    [num |-> 1, den |-> 2], [num |-> 3, den |-> 4], [num |-> 1, den |-> 1],
    [num |-> 3, den |-> 2] }

(* ---------------- Python / numpy primitives ---------------- *)

Min(a, b) == IF a <= b THEN a ELSE b

Max(a, b) == IF a >= b THEN a ELSE b

Range(s) == { s[i] : i \in 1..Len(s) }

\* int(a/b) for b > 0: truncation toward zero
IntOfQuotient(a, b) == IF a >= 0 THEN a \div b ELSE 0 - ((0 - a) \div b)

\* s[:stop] with Python's handling of negative and too large stops
SliceTo(s, stop) ==
  LET e == IF stop < 0 THEN Max(Len(s) + stop, 0) ELSE Min(stop, Len(s))
  IN SubSeq(s, 1, e)

\* s[1:]
SliceFrom1(s) == SubSeq(s, 2, Len(s))

RECURSIVE SumSeq(_)
SumSeq(s) == IF s = <<>> THEN 0 ELSE Head(s) + SumSeq(Tail(s))

\* the filtered copy of s that keeps the elements of keep, order preserved
RECURSIVE SelectIn(_, _)
SelectIn(s, keep) ==
  IF s = <<>> THEN <<>>
  ELSE IF Head(s) \in keep THEN <<Head(s)>> \o SelectIn(Tail(s), keep)
       ELSE SelectIn(Tail(s), keep)

\* every order np.random.shuffle can leave the list in
Shuffles(s) ==
  { [i \in 1..Len(s) |-> p[s[i]]] : p \in Permutations(Range(s)) }

\* np.mean of a list of integers: the quotient sum/len, kept exact; for the
\* empty list that is 0/0, which numpy returns as nan (with a warning, not
\* an exception)
np_mean(s) == [num |-> SumSeq(s), den |-> Len(s)]

\* a quotient is nan when its denominator is 0
IsNan(q) == q.den = 0

(* ---------------- networkx primitives ---------------- *)

EmptyGraph == [nodes |-> <<>>, edges |-> {}]

Pairs(S) == { {u, v} : u \in S, v \in S } \ { {u} : u \in S }

number_of_nodes(g) == Len(g.nodes)

NodeSet(g) == Range(g.nodes)

degree(g, v) == Cardinality({ e \in g.edges : v \in e })

neighbors(g, v) == { u \in NodeSet(g) : {u, v} \in g.edges }

\* a removal that compacts the ids: the survivors are renumbered in order
remove_nodes_from_renumbered(g, l) ==
  LET kept == SelectIn(g.nodes, NodeSet(g) \ Range(l))
      id(v) == (CHOOSE i \in 1..Len(kept) : kept[i] = v) - 1
  IN [nodes |-> [i \in 1..Len(kept) |-> i - 1],
      edges |-> { {id(u), id(v)} : <<u, v>> \in
                    { <<a, b>> \in Range(kept) \X Range(kept) :
                        a # b /\ {a, b} \in g.edges } }]

\* G.remove_nodes_from(l): nodes and incident edges go, survivors keep
\* their ids and their relative order; absent ids are ignored
remove_nodes_from(g, l) ==
  [nodes |-> SelectIn(g.nodes, NodeSet(g) \ Range(l)),
   edges |-> { e \in g.edges : e \cap Range(l) = {} }]

\* G.subgraph(S)
subgraph(g, S) ==
  [nodes |-> SelectIn(g.nodes, S),
   edges |-> { e \in g.edges : e \subseteq S }]

\* one breadth-first level only
Reach_one_level(g, seen) == seen \cup UNION { neighbors(g, v) : v \in seen }

\* the nodes reachable from the set seen (breadth-first closure)
RECURSIVE Reach(_, _)
Reach(g, seen) ==
  LET next == seen \cup UNION { neighbors(g, v) : v \in seen }
  IN IF next = seen THEN seen ELSE Reach(g, next)

\* nx.connected_components: one set per component, in the order in which
\* the node iteration first meets each component
RECURSIVE ComponentsFrom(_, _, _)
ComponentsFrom(g, todo, seen) ==
  IF todo = <<>> THEN <<>>
  ELSE IF Head(todo) \in seen THEN ComponentsFrom(g, Tail(todo), seen)
       ELSE LET c == Reach(g, {Head(todo)})
            IN <<c>> \o ComponentsFrom(g, Tail(todo), seen \cup c)

connected_components(g) == ComponentsFrom(g, g.nodes, {})

number_connected_components(g) == Len(connected_components(g))

\* sorted(items, key=lambda item: item[1], reverse=True) over a sequence of
\* <<key, value>> pairs: descending by value, and stable, so that pairs of
\* equal value keep their original relative order
RECURSIVE sorted_reverse(_)
sorted_reverse(items) ==
  IF items = <<>> THEN <<>>
  ELSE LET mx == CHOOSE x \in { items[i][2] : i \in 1..Len(items) } :
                   \A j \in 1..Len(items) : items[j][2] <= x
           i == CHOOSE k \in 1..Len(items) :
                   /\ items[k][2] = mx
                   /\ \A j \in 1..(k - 1) : items[j][2] # mx
       IN <<items[i]>> \o
          sorted_reverse(SubSeq(items, 1, i - 1) \o SubSeq(items, i + 1, Len(items)))

\* range(n) as a node sequence; empty for n <= 0
NodeRange(n) == [i \in 1..Max(n, 0) |-> i - 1]

\* nx.fast_gnp_random_graph(n, p) with p = pnum/pden, pden # 0: the empty
\* graph for p <= 0, the complete graph for p >= 1, any graph otherwise
fast_gnp_random_graph(n, pnum, pden) ==
  LET V == Range(NodeRange(n))
      pLeq0 == IF pden > 0 THEN pnum <= 0 ELSE pnum >= 0
      pGeq1 == IF pden > 0 THEN pnum >= pden ELSE pnum <= pden
  IN IF pLeq0 THEN { [nodes |-> NodeRange(n), edges |-> {}] }
     ELSE IF pGeq1 THEN { [nodes |-> NodeRange(n), edges |-> Pairs(V)] }
     ELSE { [nodes |-> NodeRange(n), edges |-> E] : E \in SUBSET Pairs(V) }

\* the preferential-attachment loop: every new node source attaches to m
\* distinct earlier nodes (all of them have positive degree by then)
RECURSIVE BAGrow(_, _, _, _)
BAGrow(n, m, source, E) ==
  IF source >= n THEN {E}
  ELSE UNION { BAGrow(n, m, source + 1, E \cup { {source, t} : t \in T }) :
               T \in { S \in SUBSET (0..(source - 1)) : Cardinality(S) = m } }

\* nx.barabasi_albert_graph(n, m) for 1 <= m < n.  The seed is a star on
\* nodes 0..m: centred at 0 (networkx >= 2.6) or at m (older releases,
\* where node m attaches to the edgeless seed 0..m-1)
barabasi_albert_graph(n, m) ==
  { [nodes |-> NodeRange(n), edges |-> E] :
    E \in BAGrow(n, m, m + 1, { {0, i} : i \in 1..m })
          \cup BAGrow(n, m, m + 1, { {m, i} : i \in 0..(m - 1) }) }

Raised(e) == [err |-> e, G |-> EmptyGraph]

Returned(g) == [err |-> "none", G |-> g]

\* RandomNetwork(n, p).G
RandomNetwork(n, pnum, pden) ==
  { Returned(g) : g \in fast_gnp_random_graph(n, pnum, pden) }

\* ScaleFreeNetwork(n, avg_degree).G with m = int(avg_degree/2)
ScaleFreeNetwork(n, avg_degree) ==
  LET m == IntOfQuotient(avg_degree, 2)
  IN IF m < 1 \/ m >= n THEN { Raised("NetworkXError") }
     ELSE { Returned(g) : g \in barabasi_albert_graph(n, m) }

\* get_network(N, AVG_K, random_net): the set of possible outcomes
get_network(N, AVG_K, random_net) ==
  IF random_net
  THEN IF N - 1 = 0 THEN { Raised("ZeroDivisionError") }
       ELSE RandomNetwork(N, AVG_K, N - 1)
  ELSE ScaleFreeNetwork(N, AVG_K)

(* ---------------- hub selection and removal ---------------- *)

\* dict(G.degree()).items(): <<node, degree>> in node iteration order
degree_items(g) == [i \in 1..Len(g.nodes) |-> <<g.nodes[i], degree(g, g.nodes[i])>>]

\* an ascending sort read backwards: ties come out in descending id order
get_hubs_backwards(g, top_k) ==
  LET items == degree_items(g)
      negated == [i \in 1..Len(items) |-> <<items[i][1], 0 - items[i][2]>>]
      ascending == sorted_reverse(negated)
      keys == [i \in 1..Len(ascending) |-> ascending[Len(ascending) + 1 - i][1]]
  IN SliceTo(keys, top_k)

\* get_hubs(G, top_k): the keys of the degree map sorted by degree
\* descending, cut to [:top_k]
get_hubs(g, top_k) ==
  LET sorted_degree == sorted_reverse(degree_items(g))
      keys == [i \in 1..Len(sorted_degree) |-> sorted_degree[i][1]]
  IN SliceTo(keys, top_k)

\* the count rounded up instead of truncated
removal_count_ceil(g, f) ==
  0 - ((0 - f.num * number_of_nodes(g)) \div f.den)

\* the count taken over one node too few
removal_count_short(g, f) ==
  IntOfQuotient(f.num * (number_of_nodes(g) - 1), f.den)

\* int(fraction*G.number_of_nodes())
removal_count(g, f) == IntOfQuotient(f.num * number_of_nodes(g), f.den)

\* random_removal(G, fraction): the possible lists nodes_to_remove
random_nodes_to_remove(g, f) ==
  { SliceTo(nodes, removal_count(g, f)) : nodes \in Shuffles(g.nodes) }

\* hubs picked one at a time, degrees recomputed after every deletion
RECURSIVE hubs_recomputed(_, _)
hubs_recomputed(g, k) ==
  IF k <= 0 \/ g.nodes = <<>> THEN <<>>
  ELSE LET h == get_hubs(g, 1)
       IN h \o hubs_recomputed(remove_nodes_from(g, h), k - 1)

targeted_nodes_to_remove_recomputed(g, f) ==
  hubs_recomputed(g, removal_count(g, f))

\* targeted_removal(G, fraction): the list nodes_to_remove
targeted_nodes_to_remove(g, f) == get_hubs(g, removal_count(g, f))

(* ---------------- component statistics ---------------- *)

\* one entry per node instead of one per component: the size of the
\* component each node lies in
get_component_sizes_list_per_node(g) ==
  LET components == connected_components(g)
      of(v) == CHOOSE i \in 1..Len(components) : v \in components[i]
  IN [i \in 1..Len(g.nodes) |-> Cardinality(components[of(g.nodes[i])])]

\* cluster_dist.get_component_sizes: the list of component sizes
get_component_sizes_list(g) ==
  LET components == connected_components(g)
  IN [i \in 1..Len(components) |-> Cardinality(components[i])]

\* the component sizes left in discovery order
unsorted_component_sizes(g) ==
  LET components == connected_components(g)
  IN [i \in 1..Len(components) |-> Cardinality(components[i])]

\* sorted(components, key=len, reverse=True), as the list of sizes
sorted_component_sizes(g) ==
  LET components == connected_components(g)
      items == [i \in 1..Len(components) |-> <<i, Cardinality(components[i])>>]
      sorted_components == sorted_reverse(items)
  IN [i \in 1..Len(sorted_components) |-> sorted_components[i][2]]

\* the mean taken over all components, the largest included
get_component_sizes_all(g) ==
  LET sorted_components == sorted_component_sizes(g)
      largest_component ==
        IF Len(sorted_components) > 0
        THEN [num |-> sorted_components[1], den |-> number_of_nodes(g)]
        ELSE [num |-> 0, den |-> 1]
  IN <<largest_component, np_mean(sorted_components)>>

\* components.get_component_sizes: <<largest_component, avg_other_components>>
get_component_sizes(g) ==
  LET sorted_components == sorted_component_sizes(g)
      largest_component ==
        IF Len(sorted_components) > 0
        THEN [num |-> sorted_components[1], den |-> number_of_nodes(g)]
        ELSE [num |-> 0, den |-> 1]
      other_components == SliceFrom1(sorted_components)
  IN <<largest_component, np_mean(other_components)>>

(* ---------------- diameter of the largest component ---------------- *)

\* max(nx.connected_components(G), key=len): the first component of
\* maximal size in discovery order
RECURSIVE FirstLargest(_)
FirstLargest(cs) ==
  IF Len(cs) = 1 THEN cs[1]
  ELSE LET rest == FirstLargest(Tail(cs))
       IN IF Cardinality(cs[1]) >= Cardinality(rest) THEN cs[1] ELSE rest

\* get_largest_component(G)
get_largest_component(g) ==
  IF number_connected_components(g) >= 1
  THEN subgraph(g, FirstLargest(connected_components(g)))
  ELSE g

\* the last breadth-first level reached from frontier
RECURSIVE LastLevel(_, _, _)
LastLevel(g, seen, frontier) ==
  LET next == UNION { neighbors(g, v) : v \in frontier } \ seen
  IN IF next = {} THEN frontier ELSE LastLevel(g, seen \cup next, next)

\* the number of breadth-first levels below frontier
RECURSIVE Depth(_, _, _)
Depth(g, seen, frontier) ==
  LET next == UNION { neighbors(g, v) : v \in frontier } \ seen
  IN IF next = {} THEN 0 ELSE 1 + Depth(g, seen \cup next, next)

\* nx.eccentricity(G, v) on a connected graph
eccentricity(g, v) == Depth(g, {v}, {v})

DiameterRaised(e) == [err |-> e, value |-> 0]

DiameterReturned(v) == [err |-> "none", value |-> v]

\* a single sweep: the eccentricity of the random source itself
approximation_diameter_one_sweep(g) ==
  IF number_of_nodes(g) = 0 THEN { DiameterRaised("NetworkXError") }
  ELSE IF number_of_nodes(g) = 1 THEN { DiameterReturned(0) }
  ELSE UNION { IF Reach(g, {source}) # NodeSet(g)
               THEN { DiameterRaised("NetworkXError") }
               ELSE { DiameterReturned(eccentricity(g, source)) } :
               source \in NodeSet(g) }

\* nx.algorithms.approximation.diameter(G) on an undirected graph: the
\* two-sweep bound.  A random source, a breadth-first search from it, and
\* the eccentricity of the node that search reached last; which node of
\* the last level that is depends on the adjacency order, so every one
\* of them is a possible choice.
approximation_diameter(g) ==
  IF number_of_nodes(g) = 0 THEN { DiameterRaised("NetworkXError") }
  ELSE IF number_of_nodes(g) = 1 THEN { DiameterReturned(0) }
  ELSE UNION { IF Reach(g, {source}) # NodeSet(g)
               THEN { DiameterRaised("NetworkXError") }
               ELSE { DiameterReturned(eccentricity(g, node)) :
                      node \in LastLevel(g, {source}, {source}) } :
               source \in NodeSet(g) }

\* the estimator called without the guard for the graph without nodes
diameter_unguarded(g) ==
  approximation_diameter(g)

\* diameter.diameter(G)
diameter(g) ==
  IF number_connected_components(g) = 0 THEN { DiameterReturned(0) }
  ELSE approximation_diameter(g)

(* ---------------- aggregation over trials ---------------- *)

RECURSIVE Gcd(_, _)
Gcd(a, b) == IF b = 0 THEN a ELSE Gcd(b, a % b)

\* a quotient in lowest terms; nan is 0/0
Norm(q) ==
  IF q.den = 0 THEN [num |-> 0, den |-> 0]
  ELSE LET d == Gcd(q.num, q.den)
       IN [num |-> q.num \div d, den |-> q.den \div d]

\* the sum of a list of quotients; a nan entry makes the sum nan
RECURSIVE QSum(_)
QSum(l) ==
  IF l = <<>> THEN [num |-> 0, den |-> 1]
  ELSE LET r == QSum(Tail(l))
       IN Norm([num |-> Head(l).num * r.den + r.num * Head(l).den,
                den |-> Head(l).den * r.den])

\* np.mean of a list of floats: nan for the empty list and for a list
\* with a nan entry
np_mean_floats(l) ==
  Norm([num |-> QSum(l).num, den |-> QSum(l).den * Len(l)])

\* every value counted once
Counter_distinct(l) ==
  [x \in Range(l) |-> 1]

\* Counter(l): value -> number of occurrences
Counter(l) ==
  [x \in Range(l) |-> Cardinality({ i \in 1..Len(l) : l[i] = x })]

\* fractions = [0.05, 0.18, 0.45]
cluster_fractions ==
  << [num |-> 5, den |-> 100], [num |-> 18, den |-> 100], [num |-> 45, den |-> 100] >>

\* the number of points of np.linspace(0, 1, 30)
LinspacePoints == 30

\* fractions = np.linspace(0, 1, 30)
linspace_fractions ==
  [i \in 1..LinspacePoints |-> [num |-> i - 1, den |-> LinspacePoints - 1]]

\* the fraction list of each experiment
fractions(kind) ==
  IF kind = "component_sizes" THEN cluster_fractions ELSE linspace_fractions

\* a result list that is only appended to and never read back inside the
\* runner: the model keeps its length and its last entry
NoResults == [len |-> 0, last |-> [num |-> 0, den |-> 1]]

Appended(l, x) == [len |-> l.len + 1, last |-> x]

(* ---------------- state ---------------- *)

VARIABLES
  pc,                    \* "idle", "built", "pruned", "measured", "raised"
  net,                   \* the arguments of the last get_network call
  G,                     \* the graph object handed from call to call
  pre,                   \* G as it was when the removal function was entered
  fraction,              \* the fraction argument of the removal call
  nodes_to_remove,       \* the list handed to G.remove_nodes_from
  removal,               \* "none", "random", "targeted"
  err,                   \* the exception raised by the last call, or "none"
  measure,               \* the analysis function called last, or "none"
  top_k,                 \* the argument of get_hubs
  top_k_nodes,           \* the list returned by get_hubs
  sizes,                 \* the list returned by cluster_dist.get_component_sizes
  largest_component,     \* first value returned by components.get_component_sizes
  avg_other_components,  \* second value returned by components.get_component_sizes
  diameter_value,        \* the value returned by diameter
  run,                   \* the arguments of the running experiment
  rpc,                   \* "idle", "loop", "returned", "raised"
  fi,                    \* position in the fraction list, from 1
  it,                    \* trials completed for the current fraction
  trial,                 \* the last trial's graph: nodes built, nodes and components measured
  temp_results,          \* per-fraction list of sizes or of diameters
  temp_results_relative_size,  \* per-fraction list of giant fractions
  temp_results_avg_size, \* per-fraction list of mean other sizes
  size,                  \* the list of histograms, one per fraction
  relative_size,         \* the list of mean giant fractions
  avg_size,              \* the list of mean other sizes
  diameters              \* the list of mean diameters

graphVars == <<net, G, pre, fraction, nodes_to_remove, removal, err>>

resultVars == <<measure, top_k, top_k_nodes, sizes, largest_component,
                avg_other_components, diameter_value>>

tempVars == <<temp_results, temp_results_relative_size, temp_results_avg_size>>

outVars == <<size, relative_size, avg_size, diameters>>

runVars == <<run, rpc, fi, it, trial, tempVars, outVars>>

vars == <<pc, graphVars, resultVars, runVars>>

Zero == [num |-> 0, den |-> 1]

NoNet == [N |-> 0, AVG_K |-> 0, random_net |-> TRUE]

NoTrial == [n_net |-> 0, n_pruned |-> 0, n_components |-> 0]

NoRun == [kind |-> "none", N |-> 0, AVG_K |-> 0, targeted |-> FALSE,
          random_net |-> TRUE, iterations |-> 0]

\* values of top_k tried by direct calls of get_hubs
TopKs == (0 - 1)..(MaxN + 1)

\* no graph, no result
Cleared ==
  /\ net = NoNet
  /\ G = EmptyGraph
  /\ pre = EmptyGraph
  /\ fraction = Zero
  /\ nodes_to_remove = <<>>
  /\ removal = "none"
  /\ err = "none"
  /\ measure = "none"
  /\ top_k = 0
  /\ top_k_nodes = <<>>
  /\ sizes = <<>>
  /\ largest_component = Zero
  /\ avg_other_components = Zero
  /\ diameter_value = 0

\* no experiment running
NotRunning ==
  /\ run = NoRun
  /\ rpc = "idle"
  /\ fi = 1
  /\ it = 0
  /\ trial = NoTrial
  /\ temp_results = <<>>
  /\ temp_results_relative_size = <<>>
  /\ temp_results_avg_size = <<>>
  /\ size = <<>>
  /\ relative_size = NoResults
  /\ avg_size = NoResults
  /\ diameters = NoResults

\* the graph and the results are dropped
Clear ==
  /\ net' = NoNet
  /\ G' = EmptyGraph
  /\ pre' = EmptyGraph
  /\ fraction' = Zero
  /\ nodes_to_remove' = <<>>
  /\ removal' = "none"
  /\ err' = "none"
  /\ measure' = "none"
  /\ top_k' = 0
  /\ top_k_nodes' = <<>>
  /\ sizes' = <<>>
  /\ largest_component' = Zero
  /\ avg_other_components' = Zero
  /\ diameter_value' = 0

\* the runner's frame is dropped
StopRunning ==
  /\ run' = NoRun
  /\ rpc' = "idle"
  /\ fi' = 1
  /\ it' = 0
  /\ trial' = NoTrial
  /\ temp_results' = <<>>
  /\ temp_results_relative_size' = <<>>
  /\ temp_results_avg_size' = <<>>
  /\ size' = <<>>
  /\ relative_size' = NoResults
  /\ avg_size' = NoResults
  /\ diameters' = NoResults

Init ==
  /\ pc = "idle"
  /\ Cleared
  /\ NotRunning

(* ---------------- direct calls ---------------- *)

\* net = get_network(N, AVG_K, random_net)
GetNetwork ==
  /\ pc = "idle"
  /\ \E N \in NValues, AVG_K \in AvgKValues, random_net \in BOOLEAN :
       \E o \in get_network(N, AVG_K, random_net) :
         /\ net' = [N |-> N, AVG_K |-> AVG_K, random_net |-> random_net]
         /\ err' = o.err
         /\ G' = o.G
         /\ pre' = o.G
         /\ pc' = IF o.err = "none" THEN "built" ELSE "raised"
  /\ UNCHANGED <<fraction, nodes_to_remove, removal>>
  /\ UNCHANGED <<resultVars, runVars>>

\* G_pruned = random_removal(net, fraction)
RandomRemoval ==
  /\ pc = "built"
  /\ \E f \in Fractions :
       \E l \in random_nodes_to_remove(G, f) :
         /\ fraction' = f
         /\ nodes_to_remove' = l
         /\ G' = remove_nodes_from(G, l)
  /\ pre' = G
  /\ removal' = "random"
  /\ pc' = "pruned"
  /\ UNCHANGED <<net, err>>
  /\ UNCHANGED <<resultVars, runVars>>

\* G_pruned = targeted_removal(net, fraction)
TargetedRemoval ==
  /\ pc = "built"
  /\ \E f \in Fractions :
       /\ fraction' = f
       /\ nodes_to_remove' = targeted_nodes_to_remove(G, f)
       /\ G' = remove_nodes_from(G, targeted_nodes_to_remove(G, f))
  /\ pre' = G
  /\ removal' = "targeted"
  /\ pc' = "pruned"
  /\ UNCHANGED <<net, err>>
  /\ UNCHANGED <<resultVars, runVars>>

\* net.get_hubs(top_k) on a generated graph
GetHubs ==
  /\ pc = "built"
  /\ \E k \in TopKs :
       /\ top_k' = k
       /\ top_k_nodes' = get_hubs(G, k)
  /\ measure' = "get_hubs"
  /\ pc' = "measured"
  /\ UNCHANGED <<graphVars, runVars>>
  /\ UNCHANGED <<sizes, largest_component, avg_other_components, diameter_value>>

\* cluster_dist.get_component_sizes(G_pruned)
GetComponentSizesList ==
  /\ pc = "pruned"
  /\ sizes' = get_component_sizes_list(G)
  /\ measure' = "sizes_list"
  /\ pc' = "measured"
  /\ UNCHANGED <<graphVars, runVars>>
  /\ UNCHANGED <<top_k, top_k_nodes, largest_component, avg_other_components,
                 diameter_value>>

\* components.get_component_sizes(G_pruned)
GetComponentSizes ==
  /\ pc = "pruned"
  /\ largest_component' = get_component_sizes(G)[1]
  /\ avg_other_components' = get_component_sizes(G)[2]
  /\ measure' = "sizes"
  /\ pc' = "measured"
  /\ UNCHANGED <<graphVars, runVars>>
  /\ UNCHANGED <<top_k, top_k_nodes, sizes, diameter_value>>

\* diameter(get_largest_component(G_pruned))
Diameter ==
  /\ pc = "pruned"
  /\ \E o \in diameter(get_largest_component(G)) :
       /\ diameter_value' = o.value
       /\ err' = o.err
       /\ pc' = IF o.err = "none" THEN "measured" ELSE "raised"
  /\ measure' = "diameter"
  /\ UNCHANGED <<net, G, pre, fraction, nodes_to_remove, removal, runVars>>
  /\ UNCHANGED <<top_k, top_k_nodes, sizes, largest_component,
                 avg_other_components>>

\* the trial's graph and results go out of scope
Discard ==
  /\ pc \in {"measured", "raised"}
  /\ pc' = "idle"
  /\ Clear
  /\ UNCHANGED runVars

Next ==
  \/ GetNetwork
  \/ RandomRemoval
  \/ TargetedRemoval
  \/ GetHubs
  \/ GetComponentSizesList
  \/ GetComponentSizes
  \/ Diameter
  \/ Discard

Spec == Init /\ [][Next]_vars

(* ---------------- direct calls on given graphs ---------------- *)

\* nx.path_graph(n): 0 - 1 - ... - (n-1)
path_graph(n) ==
  [nodes |-> NodeRange(n), edges |-> { {i, i + 1} : i \in 0..(n - 2) }]

\* nx.complete_graph(n)
complete_graph(n) ==
  [nodes |-> NodeRange(n), edges |-> Pairs(Range(NodeRange(n)))]

\* nx.cycle_graph(n), n >= 3
cycle_graph(n) ==
  [nodes |-> NodeRange(n), edges |-> { {i, (i + 1) % n} : i \in 0..(n - 1) }]

\* the graphs a caller hands to the analysis functions without a removal
Shapes ==
  { EmptyGraph, path_graph(1), path_graph(5), complete_graph(5), cycle_graph(6) }

\* the argument G of get_largest_component / diameter is one of the
\* shapes, its nodes inserted in any order
GivenGraph ==
  /\ pc = "idle"
  /\ \E shape \in Shapes :
       \E order \in Shuffles(shape.nodes) :
         /\ G' = [nodes |-> order, edges |-> shape.edges]
         /\ pre' = [nodes |-> order, edges |-> shape.edges]
  /\ pc' = "pruned"
  /\ UNCHANGED <<net, fraction, nodes_to_remove, removal, err>>
  /\ UNCHANGED <<resultVars, runVars>>

NextShapes ==
  \/ GivenGraph
  \/ Diameter
  \/ Discard

SpecShapes == Init /\ [][NextShapes]_vars

(* ---------------- the experiment runners ---------------- *)

\* largest node count handed to a runner
MaxRunN == 3

\* largest iteration count handed to a runner
MaxIter == 2

RunNValues == 0..MaxRunN

\* average degrees handed to a runner: m = 1, 2 for the scale-free model,
\* p >= 1 for the random model at these node counts
RunAvgKValues == {3, 4}

IterValues == 0..MaxIter

Kinds == {"component_sizes", "component", "diameter"}

\* the arguments that decide what a trial can yield
RunConfigs ==
  [N : RunNValues, AVG_K : RunAvgKValues, random_net : BOOLEAN, targeted : BOOLEAN]

ConfigOf(r) ==
  [N |-> r.N, AVG_K |-> r.AVG_K, random_net |-> r.random_net,
   targeted |-> r.targeted]

\* a trial that works on the graph an earlier trial of the same fraction
\* has already pruned instead of a fresh one
PrunedTrials_reused(c, f) ==
  UNION { IF o.err # "none" THEN {}
          ELSE LET used == remove_nodes_from(o.G, targeted_nodes_to_remove(o.G, f))
               IN { [pre |-> o.G, l |-> l, G |-> remove_nodes_from(used, l)] :
                    l \in IF c.targeted THEN { targeted_nodes_to_remove(used, f) }
                          ELSE random_nodes_to_remove(used, f) } :
          o \in get_network(c.N, c.AVG_K, c.random_net) }

\* one trial up to the pruned graph: net = get_network(...), then the
\* chosen removal; the set of possible [pre, l, G], empty when
\* get_network raises
PrunedTrials(c, f) ==
  UNION { IF o.err # "none" THEN {}
          ELSE { [pre |-> o.G, l |-> l, G |-> remove_nodes_from(o.G, l)] :
                 l \in IF c.targeted THEN { targeted_nodes_to_remove(o.G, f) }
                       ELSE random_nodes_to_remove(o.G, f) } :
          o \in get_network(c.N, c.AVG_K, c.random_net) }

\* the exceptions get_network can raise inside a trial
TrialErrors(c) ==
  { o.err : o \in get_network(c.N, c.AVG_K, c.random_net) } \ {"none"}

NodeCounts(t) ==
  [n_net |-> number_of_nodes(t.pre), n_pruned |-> number_of_nodes(t.G),
   n_components |-> number_connected_components(t.G)]

\* what a trial of run_component_sizes_experiment can append, per
\* configuration and fraction
ComponentSizesTrials ==
  [c \in RunConfigs, f \in Range(cluster_fractions) |->
     { [trial |-> NodeCounts(t), sizes |-> get_component_sizes_list(t.G)] :
       t \in PrunedTrials(c, f) }]

\* what a trial of run_component_experiment can append
ComponentTrials ==
  [c \in RunConfigs, f \in Range(linspace_fractions) |->
     { [trial |-> NodeCounts(t),
        largest_component |-> get_component_sizes(t.G)[1],
        avg_other_components |-> get_component_sizes(t.G)[2]] :
       t \in PrunedTrials(c, f) }]

\* what a trial of run_diameter_robustness_experiment can append or raise
DiameterTrials ==
  [c \in RunConfigs, f \in Range(linspace_fractions) |->
     UNION { { [trial |-> NodeCounts(t), err |-> o.err, value |-> o.value] :
               o \in diameter(get_largest_component(t.G)) } :
             t \in PrunedTrials(c, f) }]

\* the fraction of the current pass of the outer loop
CurrentFraction == fractions(run.kind)[fi]

\* a runner is entered: its result lists are created empty and the outer
\* loop starts at the first fraction
RunStart ==
  /\ rpc = "idle"
  /\ \E kind \in Kinds, N \in RunNValues, AVG_K \in RunAvgKValues,
        targeted \in BOOLEAN, random_net \in BOOLEAN, iterations \in IterValues :
       run' = [kind |-> kind, N |-> N, AVG_K |-> AVG_K, targeted |-> targeted,
               random_net |-> random_net, iterations |-> iterations]
  /\ rpc' = "loop"
  /\ fi' = 1
  /\ it' = 0
  /\ UNCHANGED <<pc, graphVars, resultVars, trial, tempVars, outVars>>

InTrial ==
  /\ rpc = "loop"
  /\ fi <= Len(fractions(run.kind))
  /\ it < run.iterations

\* get_network raises inside a trial and the exception leaves the runner
RunTrialRaises ==
  /\ InTrial
  /\ \E e \in TrialErrors(ConfigOf(run)) : err' = e
  /\ rpc' = "raised"
  /\ UNCHANGED <<pc, net, G, pre, fraction, nodes_to_remove, removal>>
  /\ UNCHANGED <<resultVars, run, fi, it, trial, tempVars, outVars>>

\* the call arguments of a trial
TrialCalls ==
  /\ net' = [N |-> run.N, AVG_K |-> run.AVG_K, random_net |-> run.random_net]
  /\ fraction' = CurrentFraction
  /\ removal' = IF run.targeted THEN "targeted" ELSE "random"
  /\ UNCHANGED <<pc, G, pre, nodes_to_remove>>

\* one trial of run_component_sizes_experiment
RunComponentSizesTrial ==
  /\ InTrial
  /\ run.kind = "component_sizes"
  /\ \E t \in ComponentSizesTrials[ConfigOf(run), CurrentFraction] :
       /\ trial' = t.trial
       /\ sizes' = t.sizes
       /\ temp_results' = temp_results \o t.sizes
  /\ TrialCalls
  /\ measure' = "sizes_list"
  /\ it' = it + 1
  /\ UNCHANGED <<err, top_k, top_k_nodes, largest_component,
                 avg_other_components, diameter_value>>
  /\ UNCHANGED <<run, rpc, fi, temp_results_relative_size,
                 temp_results_avg_size, outVars>>

\* one trial of run_component_experiment
RunComponentTrial ==
  /\ InTrial
  /\ run.kind = "component"
  /\ \E t \in ComponentTrials[ConfigOf(run), CurrentFraction] :
       /\ trial' = t.trial
       /\ largest_component' = t.largest_component
       /\ avg_other_components' = t.avg_other_components
       /\ temp_results_relative_size' =
            Append(temp_results_relative_size, t.largest_component)
       /\ temp_results_avg_size' =
            Append(temp_results_avg_size, t.avg_other_components)
  /\ TrialCalls
  /\ measure' = "sizes"
  /\ it' = it + 1
  /\ UNCHANGED <<err, top_k, top_k_nodes, sizes, diameter_value>>
  /\ UNCHANGED <<run, rpc, fi, temp_results, outVars>>

\* one trial of run_diameter_robustness_experiment
RunDiameterTrial ==
  /\ InTrial
  /\ run.kind = "diameter"
  /\ \E t \in DiameterTrials[ConfigOf(run), CurrentFraction] :
       /\ trial' = t.trial
       /\ diameter_value' = t.value
       /\ err' = t.err
       /\ IF t.err = "none"
          THEN /\ temp_results' = Append(temp_results, t.value)
               /\ it' = it + 1
               /\ rpc' = rpc
          ELSE /\ rpc' = "raised"
               /\ UNCHANGED <<temp_results, it>>
  /\ TrialCalls
  /\ measure' = "diameter"
  /\ UNCHANGED <<top_k, top_k_nodes, sizes, largest_component,
                 avg_other_components>>
  /\ UNCHANGED <<run, fi, temp_results_relative_size, temp_results_avg_size,
                 outVars>>

\* the inner loop is over: the fraction's aggregate is appended and the
\* outer loop moves on with fresh per-fraction lists
RunFractionDone ==
  /\ rpc = "loop"
  /\ fi <= Len(fractions(run.kind))
  /\ it >= run.iterations
  /\ IF run.kind = "component_sizes"
     THEN /\ size' = Append(size, Counter(temp_results))
          /\ UNCHANGED <<relative_size, avg_size, diameters>>
     ELSE IF run.kind = "component"
     THEN /\ relative_size' =
               Appended(relative_size, np_mean_floats(temp_results_relative_size))
          /\ avg_size' = Appended(avg_size, np_mean_floats(temp_results_avg_size))
          /\ UNCHANGED <<size, diameters>>
     ELSE /\ diameters' = Appended(diameters, Norm(np_mean(temp_results)))
          /\ UNCHANGED <<size, relative_size, avg_size>>
  /\ fi' = fi + 1
  /\ it' = 0
  /\ temp_results' = <<>>
  /\ temp_results_relative_size' = <<>>
  /\ temp_results_avg_size' = <<>>
  /\ UNCHANGED <<pc, graphVars, resultVars, run, rpc, trial>>

\* the outer loop is over: the result lists are returned
RunReturn ==
  /\ rpc = "loop"
  /\ fi > Len(fractions(run.kind))
  /\ rpc' = "returned"
  /\ UNCHANGED <<pc, graphVars, resultVars, run, fi, it, trial, tempVars, outVars>>

\* the caller is done with the results
RunReset ==
  /\ rpc \in {"returned", "raised"}
  /\ Clear
  /\ StopRunning
  /\ UNCHANGED pc

NextRun ==
  \/ RunStart
  \/ RunTrialRaises
  \/ RunComponentSizesTrial
  \/ RunComponentTrial
  \/ RunDiameterTrial
  \/ RunFractionDone
  \/ RunReturn
  \/ RunReset

SpecRun == Init /\ [][NextRun]_vars

(* ---------------- properties of removal and analysis ---------------- *)

\* 0 <= f <= 1
InUnit(f) == f.num >= 0 /\ f.num <= f.den

\* floor(f*n) for n >= 0
FloorOf(f, n) == (f.num * n) \div f.den

Distinct(s) == \A i, j \in 1..Len(s) : i # j => s[i] # s[j]

\* C1: random_removal with a fraction in [0,1] leaves exactly
\* n - floor(f*n) nodes, n being the node count before the call, and the
\* removed nodes are pairwise distinct nodes of the graph before the call.
C1_RandomRemovalCount ==
  (removal = "random" /\ InUnit(fraction)) =>
    /\ number_of_nodes(G) =
         number_of_nodes(pre) - FloorOf(fraction, number_of_nodes(pre))
    /\ Len(nodes_to_remove) = FloorOf(fraction, number_of_nodes(pre))
    /\ Distinct(nodes_to_remove)
    /\ Range(nodes_to_remove) \subseteq NodeSet(pre)
    /\ NodeSet(G) = NodeSet(pre) \ Range(nodes_to_remove)

\* a random removal where f*n is not an integer: 3/4 of 3 nodes, 2 removed
C1_Witness ==
  /\ removal = "random"
  /\ fraction = [num |-> 3, den |-> 4]
  /\ number_of_nodes(pre) = 3
  /\ Len(nodes_to_remove) = 2
  /\ number_of_nodes(G) = 1

\* C2: targeted_removal with a fraction in [0,1] removes exactly floor(f*n)
\* nodes, and no surviving node has a higher degree in the graph before
\* the call than a removed one: the ranking is the one of the intact graph.
C2_TargetedRemovesTopDegrees ==
  (removal = "targeted" /\ InUnit(fraction)) =>
    /\ Len(nodes_to_remove) = FloorOf(fraction, number_of_nodes(pre))
    /\ Distinct(nodes_to_remove)
    /\ Range(nodes_to_remove) \subseteq NodeSet(pre)
    /\ NodeSet(G) = NodeSet(pre) \ Range(nodes_to_remove)
    /\ \A r \in Range(nodes_to_remove), v \in NodeSet(G) :
         degree(pre, r) >= degree(pre, v)

\* a targeted removal of two or more hubs after whose first deletion a
\* survivor outranks the hub deleted second
C2_Witness ==
  /\ removal = "targeted"
  /\ InUnit(fraction)
  /\ Len(nodes_to_remove) >= 2
  /\ LET g1 == remove_nodes_from(pre, <<nodes_to_remove[1]>>)
     IN \E v \in NodeSet(G) : degree(g1, v) > degree(g1, nodes_to_remove[2])

\* C3: get_hubs(G, k) with k >= 0 returns min(k, n) distinct nodes of G,
\* by degree descending and, at equal degree, by ascending id; every node
\* left out ranks after every returned node in that same order.
C3_GetHubsRanking ==
  (measure = "get_hubs" /\ top_k >= 0) =>
    /\ Len(top_k_nodes) = Min(top_k, number_of_nodes(G))
    /\ Distinct(top_k_nodes)
    /\ Range(top_k_nodes) \subseteq NodeSet(G)
    /\ \A i, j \in 1..Len(top_k_nodes) :
         i < j =>
           \/ degree(G, top_k_nodes[i]) > degree(G, top_k_nodes[j])
           \/ /\ degree(G, top_k_nodes[i]) = degree(G, top_k_nodes[j])
              /\ top_k_nodes[i] < top_k_nodes[j]
    /\ \A v \in NodeSet(G) \ Range(top_k_nodes), h \in Range(top_k_nodes) :
         \/ degree(G, v) < degree(G, h)
         \/ degree(G, v) = degree(G, h) /\ v > h

\* a ranking cut inside a group of equal degree: a node left out ties
\* with the last one returned, and two returned nodes tie
C3_Witness ==
  /\ measure = "get_hubs"
  /\ top_k = 2
  /\ Len(top_k_nodes) = 2
  /\ degree(G, top_k_nodes[1]) = degree(G, top_k_nodes[2])
  /\ degree(G, top_k_nodes[1]) > 0
  /\ \E v \in NodeSet(G) \ Range(top_k_nodes) :
       degree(G, v) = degree(G, top_k_nodes[2])

\* S is a connected set of nodes of g: no proper part of it is cut off
ConnectedSet(g, S) ==
  \A T \in SUBSET S :
    (T # {} /\ T # S) =>
      \E e \in g.edges : e \cap T # {} /\ e \cap (S \ T) # {}

\* C4: after generation and removal the connected components partition
\* the remaining nodes (non-empty, pairwise disjoint, union = node set),
\* each is connected and maximal, and the sizes returned by
\* get_component_sizes sum to the remaining node count.
C4_ComponentsPartition ==
  (pc \in {"pruned", "measured"} /\ removal # "none") =>
    LET cs == connected_components(G)
    IN /\ \A i \in 1..Len(cs) : cs[i] # {} /\ ConnectedSet(G, cs[i])
       /\ \A i, j \in 1..Len(cs) : i # j => cs[i] \cap cs[j] = {}
       /\ UNION { cs[i] : i \in 1..Len(cs) } = NodeSet(G)
       /\ \A i \in 1..Len(cs), e \in G.edges :
            e \subseteq cs[i] \/ e \cap cs[i] = {}
       /\ measure = "sizes_list" =>
            /\ Len(sizes) = Len(cs)
            /\ \A i \in 1..Len(cs) : sizes[i] = Cardinality(cs[i])
            /\ SumSeq(sizes) = number_of_nodes(G)
       /\ (measure = "sizes" /\ number_of_nodes(G) > 0) =>
            largest_component.num + avg_other_components.num
              = number_of_nodes(G)

\* sizes measured after a real removal that cut a graph into several
\* components, one of them with more than one node
C4_Witness ==
  /\ measure = "sizes_list"
  /\ nodes_to_remove # <<>>
  /\ number_connected_components(pre) = 1
  /\ Len(sizes) >= 2
  /\ \E i \in 1..Len(sizes) : sizes[i] >= 2

\* the size of a largest component, 0 for the graph without nodes
MaxComponentSize(g) ==
  LET cs == connected_components(g)
  IN IF cs = <<>> THEN 0
     ELSE CHOOSE m \in { Cardinality(cs[i]) : i \in 1..Len(cs) } :
            \A i \in 1..Len(cs) : Cardinality(cs[i]) <= m

\* C5: the giant-component fraction is the size of the largest component
\* over the number of nodes remaining after the removal; it is 0 when no
\* node remains; otherwise it lies in (0,1] and is 1 exactly when the
\* remaining graph is connected.
C5_GiantFraction ==
  (measure = "sizes") =>
    LET n == number_of_nodes(G)
        q == largest_component
    IN /\ q.den > 0
       /\ n = 0 => q.num = 0
       /\ n > 0 =>
            /\ q.num * n = MaxComponentSize(G) * q.den
            /\ q.num > 0
            /\ q.num <= q.den
            /\ (q.num = q.den) <=> (\A u, v \in NodeSet(G) : v \in Reach(G, {u}))

\* after a real removal the giant component holds 2 of the 3 nodes left
\* of 4: the quotient is over the remaining count
C5_Witness ==
  /\ measure = "sizes"
  /\ number_of_nodes(pre) = 4
  /\ number_of_nodes(G) = 3
  /\ largest_component.num * 3 = 2 * largest_component.den
  /\ Cardinality(connected_components(G)[1]) = 1

\* C6: the mean size of the non-giant components is the sum of all
\* component sizes but one largest over the number of components minus
\* one; with fewer than two components the call returns nan and does
\* not raise.
C6_MeanOtherComponents ==
  (measure = "sizes") =>
    LET k == number_connected_components(G)
        q == avg_other_components
    IN /\ pc = "measured"
       /\ err = "none"
       /\ k < 2 => IsNan(q)
       /\ k >= 2 =>
            /\ ~IsNan(q)
            /\ q.num * (k - 1) = (number_of_nodes(G) - MaxComponentSize(G)) * q.den

\* every node was removed and the mean of no component came back as nan
C6_Witness ==
  /\ measure = "sizes"
  /\ pc = "measured"
  /\ number_of_nodes(pre) > 0
  /\ number_of_nodes(G) = 0
  /\ IsNan(avg_other_components)
  /\ err = "none"

\* C7: for both removal functions, fraction 0 leaves the node set and the
\* edge set unchanged, and fraction 1 leaves no node, no edge and an
\* empty list of components.
C7_RemoveNothingOrAll ==
  (removal # "none") =>
    /\ fraction.num = 0 =>
         /\ G = pre
         /\ nodes_to_remove = <<>>
    /\ fraction.num = fraction.den =>
         /\ G.nodes = <<>>
         /\ G.edges = {}
         /\ connected_components(G) = <<>>
         /\ measure = "sizes_list" => sizes = <<>>

\* a graph with 4 nodes and edges emptied by a targeted removal of
\* fraction 1, its component sizes measured
C7_Witness ==
  /\ removal = "targeted"
  /\ fraction.num = fraction.den
  /\ number_of_nodes(pre) = 4
  /\ pre.edges # {}
  /\ measure = "sizes_list"
  /\ sizes = <<>>

\* C8: a removal called with a fraction outside [0,1] fails with
\* InvalidParameter and removes nothing.
C8_FractionOutOfRangeRejected ==
  (removal # "none" /\ ~InUnit(fraction)) =>
    /\ err = "InvalidParameter"
    /\ G = pre


(* ---------------- properties of the experiment runners ---------------- *)

\* C9: a runner called with N <= 0 or iterations <= 0 reports
\* InvalidParameter before any graph is built: it never returns an
\* aggregate, and the error it raises is InvalidParameter.
C9_InvalidRunRejected ==
  (rpc \in {"returned", "raised"} /\ (run.N <= 0 \/ run.iterations <= 0)) =>
    /\ rpc = "raised"
    /\ err = "InvalidParameter"

RECURSIVE SumOver(_, _)
\* the sum of w[x] over the keys x in S
SumOver(w, S) ==
  IF S = {} THEN 0
  ELSE LET x == CHOOSE y \in S : TRUE IN w[x] + SumOver(w, S \ {x})

\* the total count of a histogram, summed over its buckets
HistCount(h) == SumOver(h, DOMAIN h)

\* the number of nodes a histogram accounts for: size * count over its buckets
HistMass(h) == SumOver([x \in DOMAIN h |-> x * h[x]], DOMAIN h)

\* iterations * (n - floor(f*n)) for the i-th fraction of the run
SurvivorsOf(i) ==
  run.iterations * (run.N - FloorOf(cluster_fractions[i], run.N))

\* C10 as stated: in the component-size experiment the histogram of each
\* fraction f has a total count, summed over its buckets, equal to
\* iterations * (n - floor(f*n)).
C10_HistogramCountsNodes ==
  run.kind = "component_sizes" =>
    \A i \in 1..Len(size) : HistCount(size[i]) = SurvivorsOf(i)

\* C10 amended: the histogram of each fraction f counts components, not
\* nodes. Its sizes weighted by their counts add up to
\* iterations * (n - floor(f*n)); its total count is the number of
\* components pooled over the trials, which is at most that number and
\* equals it only when every component is a single node.
C10_HistogramCountsComponents ==
  run.kind = "component_sizes" =>
    /\ \A i \in 1..Len(size) :
         /\ HistMass(size[i]) = SurvivorsOf(i)
         /\ HistCount(size[i]) <= SurvivorsOf(i)
         /\ HistCount(size[i]) = SurvivorsOf(i) <=> DOMAIN size[i] \subseteq {1}
         /\ \A x \in DOMAIN size[i] : x >= 1 /\ size[i][x] >= 1
    /\ rpc = "loop" /\ fi <= Len(cluster_fractions) =>
         /\ SumSeq(temp_results) =
              it * (run.N - FloorOf(cluster_fractions[fi], run.N))
         /\ Len(temp_results) <= SumSeq(temp_results)

\* a returned component-size run of 2 trials on 3 nodes whose last
\* histogram has a bucket for components of 2 nodes
C10_Witness ==
  /\ rpc = "returned"
  /\ run.kind = "component_sizes"
  /\ run.N = 3
  /\ run.iterations = 2
  /\ Len(size) = Len(cluster_fractions)
  /\ 2 \in DOMAIN size[Len(size)]
  /\ HistCount(size[Len(size)]) < SurvivorsOf(Len(size))


(* ---------------- properties of the diameter estimate ---------------- *)

\* g has the nodes and edges of shape, whatever the insertion order
SameGraph(g, shape) ==
  /\ NodeSet(g) = NodeSet(shape)
  /\ g.edges = shape.edges

\* C11: diameter(get_largest_component(G)) returns 4 on the path of 5
\* nodes, 1 on the complete graph of 5 nodes, 3 on the 6-cycle, 0 on a
\* single isolated node and 0 on the empty graph, whatever node the sweep
\* starts from, and raises on none of them.
C11_DiameterOfShapes ==
  (measure = "diameter" /\ removal = "none" /\ pc # "idle") =>
    /\ err = "none"
    /\ pc = "measured"
    /\ SameGraph(G, path_graph(5)) => diameter_value = 4
    /\ SameGraph(G, complete_graph(5)) => diameter_value = 1
    /\ SameGraph(G, cycle_graph(6)) => diameter_value = 3
    /\ SameGraph(G, path_graph(1)) => diameter_value = 0
    /\ SameGraph(G, EmptyGraph) => diameter_value = 0

\* the estimate of the 6-cycle has been returned for an insertion order
\* that does not start at node 0
C11_Witness ==
  /\ pc = "measured"
  /\ measure = "diameter"
  /\ removal = "none"
  /\ SameGraph(G, cycle_graph(6))
  /\ G.nodes[1] # 0
  /\ diameter_value = 3

\* the nodes within k steps of u
RECURSIVE Ball(_, _, _)
Ball(g, u, k) ==
  IF k = 0 THEN {u}
  ELSE LET inner == Ball(g, u, k - 1)
       IN inner \cup UNION { neighbors(g, v) : v \in inner }

\* the shortest-path distance of two nodes of a connected graph
Dist(g, u, v) ==
  CHOOSE k \in 0..number_of_nodes(g) :
    /\ v \in Ball(g, u, k)
    /\ \A j \in 0..(k - 1) : v \notin Ball(g, u, j)

\* the maximum shortest-path distance of a connected graph, 0 without nodes
TrueDiameter(g) ==
  LET ds == { Dist(g, u, v) : u \in NodeSet(g), v \in NodeSet(g) }
  IN IF ds = {} THEN 0 ELSE CHOOSE d \in ds : \A e \in ds : e <= d

\* connected with one edge less than nodes
IsTree(g) ==
  /\ number_of_nodes(g) >= 1
  /\ ConnectedSet(g, NodeSet(g))
  /\ Cardinality(g.edges) = number_of_nodes(g) - 1

\* C12: for every graph and every start node the value returned by
\* diameter(get_largest_component(G)) is a non-negative integer, at most
\* the maximum shortest-path distance of the largest component, and equal
\* to it when that component is a tree.
C12_DiameterLowerBound ==
  measure = "diameter" =>
    LET lcc == get_largest_component(G)
    IN /\ err = "none"
       /\ diameter_value \in Nat
       /\ diameter_value <= TrueDiameter(lcc)
       /\ IsTree(lcc) => diameter_value = TrueDiameter(lcc)

\* the estimate of a pruned graph of several components whose largest one
\* is a tree of diameter 2
C12_Witness ==
  /\ pc = "measured"
  /\ measure = "diameter"
  /\ removal # "none"
  /\ number_connected_components(G) >= 2
  /\ IsTree(get_largest_component(G))
  /\ TrueDiameter(get_largest_component(G)) = 2
  /\ diameter_value = 2


(* ---------------- properties of generation and removal ---------------- *)

\* C13: for m = floor(avg_degree/2) with 1 <= m < n,
\* ScaleFreeNetwork(n, avg_degree) produces a connected simple graph on the
\* nodes 0..n-1 with exactly m*(n-m) edges in which every node of index
\* >= m has degree >= m.
C13_ScaleFreeShape ==
  LET m == IntOfQuotient(net.AVG_K, 2)
  IN (pc = "built" /\ ~net.random_net /\ 1 <= m /\ m < net.N) =>
       /\ G.nodes = NodeRange(net.N)
       /\ G.edges \subseteq Pairs(NodeSet(G))
       /\ ConnectedSet(G, NodeSet(G))
       /\ Cardinality(G.edges) = m * (net.N - m)
       /\ \A v \in NodeSet(G) : v >= m => degree(G, v) >= m

\* C14: after a removal of the node set R the graph is the subgraph of the
\* graph before the call induced on the survivors: the survivors keep
\* their ids and order, every edge between two survivors is still there,
\* no edge is new, no edge touches R, and adjacency is symmetric.
C14_RemovalInducedSubgraph ==
  (pc = "pruned" /\ removal # "none") =>
    LET R == Range(nodes_to_remove)
        S == NodeSet(pre) \ R
        before(v) == CHOOSE i \in 1..Len(pre.nodes) : pre.nodes[i] = v
    IN /\ NodeSet(G) = S
       /\ Len(G.nodes) = Cardinality(S)
       /\ \A a, b \in 1..Len(G.nodes) :
            a < b => before(G.nodes[a]) < before(G.nodes[b])
       /\ \A e \in pre.edges : e \subseteq S => e \in G.edges
       /\ G.edges \subseteq pre.edges
       /\ \A e \in G.edges : e \cap R = {} /\ e \subseteq S
       /\ \A u \in S : \A v \in neighbors(G, u) : u \in neighbors(G, v)

\* a removal that took node 0 and an edge with it and left an edge
\* between two survivors
C14_Witness ==
  /\ pc = "pruned"
  /\ removal # "none"
  /\ 0 \in Range(nodes_to_remove)
  /\ G.edges # {}
  /\ G.edges # pre.edges
  /\ number_of_nodes(G) < number_of_nodes(pre)


(* ---------------- properties of the trials of a runner ---------------- *)

\* C15: in every runner each trial starts from a freshly generated graph
\* of exactly N nodes and measures a graph of exactly N - floor(f*N)
\* nodes for its fraction f, however many trials and fractions ran before.
C15_TrialsStartFresh ==
  (rpc # "idle" /\ removal # "none") =>
    /\ fraction \in Range(fractions(run.kind))
    /\ (rpc = "loop" /\ it > 0) => fraction = CurrentFraction
    /\ InUnit(fraction)
    /\ trial.n_net = run.N
    /\ trial.n_pruned = run.N - FloorOf(fraction, run.N)

\* the second trial of the last fraction of a sweep on 3 nodes: the trials
\* before it removed nodes, this one starts from 3 nodes and removes all
C15_Witness ==
  /\ rpc = "loop"
  /\ run.kind = "component"
  /\ run.N = 3
  /\ fi = LinspacePoints
  /\ it = 2
  /\ removal # "none"
  /\ relative_size.len = LinspacePoints - 1
  /\ trial.n_net = 3
  /\ trial.n_pruned = 0

\* C16: in run_component_experiment the mean of the non-giant component
\* size of a fraction is nan whenever one of its trials measured fewer than
\* two components, and a number only when every trial measured at least
\* two; the mean giant-component fraction of a fraction is always a number.
C16_NanPropagates ==
  [][ /\ (run.kind = "component" /\ it' = it + 1) =>
           /\ IsNan(avg_other_components') <=> trial'.n_components < 2
           /\ temp_results_avg_size' =
                Append(temp_results_avg_size, avg_other_components')
      /\ (run.kind = "component" /\ avg_size'.len = avg_size.len + 1) =>
           /\ (\E i \in 1..Len(temp_results_avg_size) :
                  IsNan(temp_results_avg_size[i])) => IsNan(avg_size'.last)
           /\ ~IsNan(avg_size'.last) =>
                \A i \in 1..Len(temp_results_avg_size) :
                  ~IsNan(temp_results_avg_size[i])
           /\ ~IsNan(relative_size'.last) ]_vars

\* the histograms appended so far, one per finished fraction and in
\* fraction order: sizes weighted by counts add up to the nodes measured,
\* every bucket is a size between 1 and N - floor(f*N) with a positive count
HistogramsOfFractions ==
  /\ Len(size) <= Len(cluster_fractions)
  /\ rpc = "loop" => Len(size) = fi - 1
  /\ rpc = "returned" => Len(size) = Len(cluster_fractions)
  /\ \A i \in 1..Len(size) :
       LET left == run.N - FloorOf(cluster_fractions[i], run.N)
       IN /\ HistMass(size[i]) = run.iterations * left
          /\ \A x \in DOMAIN size[i] : 1 <= x /\ x <= left /\ size[i][x] >= 1

\* a trial pools one entry per component of its pruned graph, and the
\* histogram appended for a fraction counts exactly the pooled entries
HistogramCountsPooled ==
  /\ it' = it + 1 =>
       /\ Len(temp_results') = Len(temp_results) + trial'.n_components
       /\ SumSeq(temp_results') = SumSeq(temp_results) + trial'.n_pruned
  /\ Len(size') = Len(size) + 1 =>
       /\ it = run.iterations
       /\ HistCount(size'[Len(size')]) = Len(temp_results)
       /\ SubSeq(size', 1, Len(size)) = size

\* C17: in run_component_sizes_experiment the histogram of each fraction f
\* has size * count summing to iterations * (N - floor(f*N)), bucket keys
\* between 1 and N - floor(f*N), and counts summing to the number of
\* connected components over the trials of that fraction; the result list
\* has exactly one histogram per fraction, in fraction order.
C17_HistogramOfComponents ==
  /\ [](run.kind = "component_sizes" => HistogramsOfFractions)
  /\ [][run.kind = "component_sizes" => HistogramCountsPooled]_vars

\* a returned run of 2 trials on 3 nodes: the first histogram holds the
\* two whole graphs, the last one four single nodes
C17_Witness ==
  /\ rpc = "returned"
  /\ run.kind = "component_sizes"
  /\ run.N = 3
  /\ run.iterations = 2
  /\ Len(size) = 3
  /\ DOMAIN size[1] = {3}
  /\ size[1][3] = 2
  /\ DOMAIN size[3] = {1}
  /\ size[3][1] = 4

====
